---- MODULE Spec2Model ----
(***************************************************************************)
(* engram-db: the Mnemo log engine (src/src/mnemo.rs) and the store facade *)
(* with its language bindings (src/engram-open/src/lib.rs).                *)
(*                                                                         *)
(* The file store.mnemo is a sequence of bytes (0..255).  Every u64 of the *)
(* program (ids, timestamps, ttl) is kept as its 8 little-endian bytes, so *)
(* that no width is lost; a u32 length is decoded exactly below LenCap and *)
(* saturates at LenCap above it (every file of the model is far shorter,   *)
(* so a saturated length behaves as the exact one: it lies past the end).  *)
(* An f32 is kept as its 4 bytes (to_le_bytes / from_le_bytes copy bits).  *)
(***************************************************************************)
EXTENDS Integers, Sequences, FiniteSets, TLC

\* ------------------------------------------------------------------ bounds
\* MaxAppends: append_with_vector calls on the file, successful or failed.
\* MaxFaults: failed appends plus truncations of the closed file.
\* MaxOpens: times the directory is opened.  NThreads: threads sharing a handle.
\* EmbedDim: the embedder's dimension D.  LenCap: decoded lengths saturate here.
MaxAppends == 2
MaxFaults == 1
MaxOpens == 2
NThreads == 2
EmbedDim == 1
LenCap == 16777216

\* --------------------------------------------------------------- constants
MAGIC_BYTES == <<77, 78, 77, 79>>
SYNC_MARKER == <<250, 250, 250, 250>>
HEADER_SIZE == 64
CURRENT_VERSION == 3
FLAG_HAS_TTL == 1
FLAG_HAS_METADATA == 2

\* ------------------------------------------------------------------- bytes
\* n.to_le_bytes() on k bytes
RECURSIVE ToLe(_, _)
ToLe(n, k) == IF k = 0 THEN <<>> ELSE <<n % 256>> \o ToLe(n \div 256, k - 1)

U64(n) == ToLe(n, 8)

\* u32::from_le_bytes(b) as usize, saturating at LenCap
U32FromLe(b) == IF b[4] # 0 THEN LenCap ELSE b[1] + 256 * b[2] + 65536 * b[3]

\* An id that is not advanced
U64Keep(b) == b

\* a + 1 on the 8 little-endian bytes of a u64 (wrapping at 2^64)
RECURSIVE U64Inc(_)
U64Inc(b) ==
    IF b = <<>> THEN <<>>
    ELSE IF b[1] < 255 THEN <<b[1] + 1>> \o Tail(b)
    ELSE <<0>> \o U64Inc(Tail(b))

\* a > b on u64, most significant byte (the last) first
RECURSIVE U64GtFrom(_, _, _)
U64GtFrom(a, b, i) ==
    IF i = 0 THEN FALSE
    ELSE IF a[i] # b[i] THEN a[i] > b[i]
    ELSE U64GtFrom(a, b, i - 1)

U64Gt(a, b) == U64GtFrom(a, b, 8)

\* flags & bit != 0, for bit in {1, 2}
HasFlag(flags, bit) == (flags \div bit) % 2 = 1

\* Option<T>: <<>> is None, <<x>> is Some(x)
None == <<>>
Some(x) == <<x>>
IsSome(o) == o # <<>>

\* buf[a..b] of Rust (0-based, end exclusive): in range iff a <= b <= len
InRange(buf, a, b) == a <= b /\ b <= Len(buf)
Slice(buf, a, b) == SubSeq(buf, a + 1, b)

\* &buf[pos..pos+4] == SYNC_MARKER, the slice being in range
SyncAt(buf, pos) == Slice(buf, pos, pos + 4) = SYNC_MARKER

\* std::str::from_utf8: the model's texts are ASCII; a byte >= 128 only occurs in
\* binary fields, where it never forms a valid sequence on its own
IsUtf8(bytes) == \A i \in 1..Len(bytes) : bytes[i] < 128

\* ------------------------------------------------------------------ CRC-32
\* crc32fast::Hasher (CRC-32/ISO-HDLC, reflected polynomial EDB88320).  The 32
\* bit register is kept as <<high 16 bits, low 16 bits>>.
RECURSIVE XorBits(_, _, _)
XorBits(a, b, n) ==
    IF n = 0 THEN 0
    ELSE ((a + b) % 2) + 2 * XorBits(a \div 2, b \div 2, n - 1)

Xor16(a, b) == XorBits(a, b, 16)

\* One bit of the register shifted out
Crc32Shift(crc) ==
    LET hi == crc[1] \div 2
        lo == (crc[2] \div 2) + 32768 * (crc[1] % 2)
    IN  IF crc[2] % 2 = 1 THEN <<Xor16(hi, 60856), Xor16(lo, 33568)>> ELSE <<hi, lo>>

RECURSIVE Crc32Shifts(_, _)
Crc32Shifts(crc, n) == IF n = 0 THEN crc ELSE Crc32Shifts(Crc32Shift(crc), n - 1)

RECURSIVE Crc32Update(_, _)
Crc32Update(crc, bytes) ==
    IF bytes = <<>> THEN crc
    ELSE Crc32Update(Crc32Shifts(<<crc[1], Xor16(crc[2], Head(bytes))>>, 8), Tail(bytes))

\* hasher.update(content_bytes); hasher.finalize().to_le_bytes()
Crc32(bytes) ==
    LET crc == Crc32Update(<<65535, 65535>>, bytes)
    IN  ToLe(65535 - crc[2], 2) \o ToLe(65535 - crc[1], 2)

\* -------------------------------------------------------------------- JSON
\* A metadata map (HashMap<String, String>) is a function from keys to values,
\* keys and values being byte strings.  The model's keys and values are lower
\* case letters, so no character is escaped.
QUOTE == 34
JsonString(bytes) == <<QUOTE>> \o bytes \o <<QUOTE>>

\* serde_json::to_vec(m): {"k":"v",...}; a HashMap iterates in an arbitrary
\* order, fixed here by CHOOSE (the model's maps hold at most one entry)
RECURSIVE JsonEntries(_, _)
JsonEntries(m, keys) ==
    IF keys = {} THEN <<>>
    ELSE LET k == CHOOSE x \in keys : TRUE
             rest == keys \ {k}
         IN  JsonString(k) \o <<58>> \o JsonString(m[k])
             \o (IF rest = {} THEN <<>> ELSE <<44>> \o JsonEntries(m, rest))

JsonEncode(m) == <<123>> \o JsonEntries(m, DOMAIN m) \o <<125>>

\* The 0-based position of the closing quote of a string whose first character
\* is at pos, or -1: a control character, a byte that is not ASCII, an escape
\* or the end of the input comes first.
RECURSIVE JsonStringEnd(_, _)
JsonStringEnd(b, pos) ==
    IF pos >= Len(b) THEN -1
    ELSE LET c == b[pos + 1]
         IN  IF c = QUOTE THEN pos
             ELSE IF c < 32 \/ c >= 128 \/ c = 92 THEN -1
             ELSE JsonStringEnd(b, pos + 1)

\* Entries from pos (just after '{' or ','), added to m.  Err is None.
RECURSIVE JsonDecodeEntries(_, _, _)
JsonDecodeEntries(b, pos, m) ==
    IF ~(pos < Len(b) /\ b[pos + 1] = QUOTE) THEN None
    ELSE LET kend == JsonStringEnd(b, pos + 1)
         IN  IF kend < 0 \/ ~(kend + 2 < Len(b)) THEN None
             ELSE IF b[kend + 2] # 58 \/ b[kend + 3] # QUOTE THEN None
             ELSE LET vend == JsonStringEnd(b, kend + 3)
                  IN  IF vend < 0 \/ ~(vend + 1 < Len(b)) THEN None
                      ELSE LET k  == Slice(b, pos + 1, kend)
                               v  == Slice(b, kend + 3, vend)
                               m2 == [x \in (DOMAIN m) \cup {k} |-> IF x = k THEN v ELSE m[x]]
                               c  == b[vend + 2]
                           IN  IF c = 125
                               THEN IF vend + 2 = Len(b) THEN Some(m2) ELSE None
                               ELSE IF c = 44 THEN JsonDecodeEntries(b, vend + 2, m2)
                               ELSE None

EmptyMap == [x \in {} |-> <<>>]

\* serde_json::from_slice::<HashMap<String, String>>(b): Some(map), or None for
\* an error
JsonDecode(b) ==
    IF Len(b) < 2 \/ b[1] # 123 THEN None
    ELSE IF b[2] = 125 THEN (IF Len(b) = 2 THEN Some(EmptyMap) ELSE None)
    ELSE JsonDecodeEntries(b, 1, EmptyMap)

\* ------------------------------------------------------------ record format
\* The flags byte of append_with_vector
FlagsOf(metadata, ttl) ==
    (IF IsSome(ttl) THEN FLAG_HAS_TTL ELSE 0) + (IF IsSome(metadata) THEN FLAG_HAS_METADATA ELSE 0)

\* A vector is a sequence of f32, each its 4 bytes
RECURSIVE VectorBytes(_)
VectorBytes(vector) ==
    IF vector = <<>> THEN <<>> ELSE Head(vector) \o VectorBytes(Tail(vector))

\* The bytes the write_all calls of append_with_vector write, in order
RecordBytes(id, timestamp, content, vector, metadata, ttl) ==
    SYNC_MARKER
    \o id
    \o <<FlagsOf(metadata, ttl)>>
    \o timestamp
    \o (IF IsSome(ttl) THEN ttl[1] ELSE <<>>)
    \o (IF IsSome(metadata)
        THEN LET meta_bytes == JsonEncode(metadata[1])
             IN  ToLe(Len(meta_bytes), 4) \o meta_bytes
        ELSE <<>>)
    \o ToLe(Len(content), 4) \o content
    \o ToLe(Len(vector), 4) \o VectorBytes(vector)
    \o Crc32(content)

\* The 64-byte header MnemoEngine::new writes: magic, version, 58 zero bytes
HeaderBytes == MAGIC_BYTES \o ToLe(CURRENT_VERSION, 2) \o [i \in 1..58 |-> 0]

\* ------------------------------------------------------------ scan_records
EmptyIndex == [x \in {} |-> 0]
IndexInsert(idx, id, off) == [x \in (DOMAIN idx) \cup {id} |-> IF x = id THEN off ELSE idx[x]]
ZeroId == U64(0)

ScanPanic == [kind |-> "panic"]

\* ScanAdvance with the ttl's 8 bytes never skipped
ScanAdvanceNoTtl(buffer, pos) ==
    LET flags == buffer[pos + 12 + 1]
        p2 == pos + 12 + 9
        metaOk == ~HasFlag(flags, FLAG_HAS_METADATA) \/ InRange(buffer, p2, p2 + 4)
        p3 == IF HasFlag(flags, FLAG_HAS_METADATA)
              THEN p2 + 4 + U32FromLe(Slice(buffer, p2, p2 + 4))
              ELSE p2
    IN  IF ~metaOk THEN -1
        ELSE IF ~InRange(buffer, p3, p3 + 4) THEN -1
        ELSE LET p4 == p3 + 4 + U32FromLe(Slice(buffer, p3, p3 + 4))
             IN  IF ~InRange(buffer, p4, p4 + 4) THEN -1
                 ELSE p4 + 4 + (U32FromLe(Slice(buffer, p4, p4 + 4)) * 4) + 4

\* One record at pos, the sync marker being there: the position after it, or -1
\* when a length field lies out of the buffer (the slice panics)
ScanAdvance(buffer, pos) ==
    LET flags == buffer[pos + 12 + 1]
        p1 == pos + 12 + 9
        p2 == IF HasFlag(flags, FLAG_HAS_TTL) THEN p1 + 8 ELSE p1
        metaOk == ~HasFlag(flags, FLAG_HAS_METADATA) \/ InRange(buffer, p2, p2 + 4)
        p3 == IF HasFlag(flags, FLAG_HAS_METADATA)
              THEN p2 + 4 + U32FromLe(Slice(buffer, p2, p2 + 4))
              ELSE p2
    IN  IF ~metaOk THEN -1
        ELSE IF ~InRange(buffer, p3, p3 + 4) THEN -1
        ELSE LET p4 == p3 + 4 + U32FromLe(Slice(buffer, p3, p3 + 4))
             IN  IF ~InRange(buffer, p4, p4 + 4) THEN -1
                 ELSE p4 + 4 + (U32FromLe(Slice(buffer, p4, p4 + 4)) * 4) + 4

\* The loop bound of scan_records: "while pos + 17 <= buffer.len()"
ScanContinues(buffer, pos) == pos + 17 <= Len(buffer)

\* A scan that looks for the next sync marker byte by byte, records included
RECURSIVE ScanLoopBytewise(_, _, _, _)
ScanLoopBytewise(buffer, pos, idx, last) ==
    IF ~ScanContinues(buffer, pos) THEN [kind |-> "ok", index |-> idx, last_id |-> last]
    ELSE IF SyncAt(buffer, pos)
    THEN LET id == Slice(buffer, pos + 4, pos + 12)
         IN  ScanLoopBytewise(buffer, pos + 1, IndexInsert(idx, id, HEADER_SIZE + pos),
                              IF U64Gt(id, last) THEN id ELSE last)
    ELSE ScanLoopBytewise(buffer, pos + 1, idx, last)

RECURSIVE ScanLoop(_, _, _, _)
ScanLoop(buffer, pos, idx, last) ==
    IF ~ScanContinues(buffer, pos) THEN [kind |-> "ok", index |-> idx, last_id |-> last]
    ELSE IF SyncAt(buffer, pos)
    THEN LET id   == Slice(buffer, pos + 4, pos + 12)
             idx2 == IndexInsert(idx, id, HEADER_SIZE + pos)
             l2   == IF U64Gt(id, last) THEN id ELSE last
             next == ScanAdvance(buffer, pos)
         IN  IF next < 0 THEN ScanPanic ELSE ScanLoop(buffer, next, idx2, l2)
    ELSE ScanLoop(buffer, pos + 1, idx, last)

\* The positions of the body at which the loop of scan_records finds the sync
\* marker and decodes a record header
RECURSIVE ScanHeaders(_, _)
ScanHeaders(buffer, pos) ==
    IF ~ScanContinues(buffer, pos) THEN {}
    ELSE IF SyncAt(buffer, pos)
    THEN LET next == ScanAdvance(buffer, pos)
         IN  {pos} \cup (IF next < 0 THEN {} ELSE ScanHeaders(buffer, next))
    ELSE ScanHeaders(buffer, pos + 1)

\* scan_records(file, version): the body is read from HEADER_SIZE to the end
scan_records(f) == ScanLoop(SubSeq(f, HEADER_SIZE + 1, Len(f)), 0, EmptyIndex, ZeroId)

\* ------------------------------------------------------------- read_record
ReadNone  == [kind |-> "none"]
ReadErr   == [kind |-> "err"]
ReadPanic == [kind |-> "panic"]

RECURSIVE VectorFrom(_, _, _)
VectorFrom(map, pos, n) ==
    IF n = 0 THEN <<>> ELSE <<Slice(map, pos, pos + 4)>> \o VectorFrom(map, pos + 4, n - 1)

\* The vector part, from pos (the vector length)
ReadVector(map, id, timestamp, ttl, metadata, content, pos) ==
    IF ~InRange(map, pos, pos + 4) THEN ReadPanic
    ELSE LET vlen == U32FromLe(Slice(map, pos, pos + 4))
         IN  IF ~InRange(map, pos + 4, pos + 4 + 4 * vlen) THEN ReadPanic
             ELSE [kind |-> "some", id |-> id, content |-> content,
                   vector |-> VectorFrom(map, pos + 4, vlen),
                   timestamp |-> timestamp, ttl |-> ttl, metadata |-> metadata]

\* The content part, from pos (the content length)
ReadContent(map, id, timestamp, ttl, metadata, pos) ==
    IF ~InRange(map, pos, pos + 4) THEN ReadPanic
    ELSE LET clen == U32FromLe(Slice(map, pos, pos + 4))
         IN  IF ~InRange(map, pos + 4, pos + 4 + clen) THEN ReadPanic
             ELSE LET bytes == Slice(map, pos + 4, pos + 4 + clen)
                  IN  IF ~IsUtf8(bytes) THEN ReadErr
                      ELSE ReadVector(map, id, timestamp, ttl, metadata, bytes, pos + 4 + clen)

\* The metadata part, from pos
ReadMetadata(map, id, flags, timestamp, ttl, pos) ==
    IF ~HasFlag(flags, FLAG_HAS_METADATA)
    THEN ReadContent(map, id, timestamp, ttl, None, pos)
    ELSE IF ~InRange(map, pos, pos + 4) THEN ReadPanic
    ELSE LET mlen == U32FromLe(Slice(map, pos, pos + 4))
         IN  IF ~InRange(map, pos + 4, pos + 4 + mlen) THEN ReadPanic
             ELSE LET m == JsonDecode(Slice(map, pos + 4, pos + 4 + mlen))
                  IN  IF m = None THEN ReadErr
                      ELSE ReadContent(map, id, timestamp, ttl, m, pos + 4 + mlen)

\* A parse that returns whatever record lies at the offset, its id untested
ParseRecordAnyId(map, offset, id) ==
    IF ~InRange(map, offset, offset + 4) THEN ReadPanic
    ELSE IF ~SyncAt(map, offset) THEN ReadNone
    ELSE IF ~InRange(map, offset + 4, offset + 12) THEN ReadPanic
    ELSE IF ~(offset + 12 < Len(map)) THEN ReadPanic
    ELSE LET flags == map[offset + 12 + 1]
             p1 == offset + 13
         IN  IF ~InRange(map, p1, p1 + 8) THEN ReadPanic
             ELSE LET timestamp == Slice(map, p1, p1 + 8)
                      p2 == p1 + 8
                  IN  IF HasFlag(flags, FLAG_HAS_TTL)
                      THEN IF ~InRange(map, p2, p2 + 8) THEN ReadPanic
                           ELSE ReadMetadata(map, id, flags, timestamp,
                                             Some(Slice(map, p2, p2 + 8)), p2 + 8)
                      ELSE ReadMetadata(map, id, flags, timestamp, None, p2)

\* The parse of read_record in the mapping map, at the indexed offset
ParseRecord(map, offset, id) ==
    IF ~InRange(map, offset, offset + 4) THEN ReadPanic
    ELSE IF ~SyncAt(map, offset) THEN ReadNone
    ELSE IF ~InRange(map, offset + 4, offset + 12) THEN ReadPanic
    ELSE IF Slice(map, offset + 4, offset + 12) # id THEN ReadNone
    ELSE IF ~(offset + 12 < Len(map)) THEN ReadPanic
    ELSE LET flags == map[offset + 12 + 1]
             p1 == offset + 13
         IN  IF ~InRange(map, p1, p1 + 8) THEN ReadPanic
             ELSE LET timestamp == Slice(map, p1, p1 + 8)
                      p2 == p1 + 8
                  IN  IF HasFlag(flags, FLAG_HAS_TTL)
                      THEN IF ~InRange(map, p2, p2 + 8) THEN ReadPanic
                           ELSE ReadMetadata(map, id, flags, timestamp,
                                             Some(Slice(map, p2, p2 + 8)), p2 + 8)
                      ELSE ReadMetadata(map, id, flags, timestamp, None, p2)

\* ------------------------------------------------------------------ inputs
F32_ONE  == <<0, 0, 128, 63>>
F32_SYNC == <<250, 250, 250, 250>>
TEXT_HI  == <<104, 105>>
TEXT_A   == <<97>>
META_KV  == (<<107>> :> <<118>>)

\* The arguments the log engine is driven with directly: (content, vector)
\* pairs, metadata and ttl present or absent
Payloads == {<<<<>>, <<>>>>, <<TEXT_HI, <<F32_SYNC>>>>}
Metas    == {None, Some(META_KV)}
Ttls     == {None, Some(U64(5))}
\* SystemTime::now() in seconds
Clock    == {<<0, 241, 83, 101, 0, 0, 0, 0>>}

\* The arguments of the facade's calls
Texts    == {TEXT_A, TEXT_HI}
Limits   == {1, 2}
Threads  == 1..NThreads

\* ------------------------------------------------------------------- state
VARIABLES
    file,          \* the bytes of store.mnemo
    status,        \* "closed" | "open" | "crashed": the handle on the directory
    index,         \* MnemoEngine::index, id -> record start offset
    last_id,       \* MnemoEngine::last_id
    mmap,          \* MnemoEngine::mmap: None, or Some(length of the mapping)
    vector_cache,  \* MnemoEngine::vector_cache
    hnsw,          \* EngramDBInternal::hnsw: the (vector, id) points inserted, in order
    lock,          \* the facade mutex: 0, or the thread holding it
    pc,            \* each thread's position in its call
    local,         \* each thread's call arguments and locals
    order,         \* history: the threads inside store, in the order they took the lock
    ret,           \* what the last operation returned (NoRet after any other step)
    log,           \* history: the successful appends, in order
    failed,        \* history: the failed appends, in order
    truncs,        \* history: the truncations of the closed file
    opens          \* history: how many times the directory was opened

engineVars == <<index, last_id, mmap, vector_cache>>
facadeVars == <<hnsw, lock, pc, local, order>>
histVars   == <<log, failed, truncs, opens>>
vars == <<file, status, index, last_id, mmap, vector_cache, hnsw, lock, pc, local,
          order, ret, log, failed, truncs, opens>>

NoRet == [op |-> "none"]
NoLocal == [text |-> <<>>, metadata |-> None, limit |-> 0, embedding |-> <<>>, id |-> ZeroId]

Attempts == Len(log) + Len(failed)
Faults == Len(failed) + Len(truncs)

Init ==
    /\ file = <<>>
    /\ status = "closed"
    /\ index = EmptyIndex
    /\ last_id = ZeroId
    /\ mmap = None
    /\ vector_cache = EmptyIndex
    /\ hnsw = <<>>
    /\ lock = 0
    /\ pc = [t \in Threads |-> "idle"]
    /\ local = [t \in Threads |-> NoLocal]
    /\ order = <<>>
    /\ ret = NoRet
    /\ log = <<>>
    /\ failed = <<>>
    /\ truncs = <<>>
    /\ opens = 0

\* --------------------------------------------------------- MnemoEngine::new
\* A validity test that looks at the length only
IsValidLenOnly(f) == Len(f) >= HEADER_SIZE

\* Whether the file is taken as valid: length >= 64 and the magic at its start
IsValid(f) == Len(f) >= HEADER_SIZE /\ SubSeq(f, 1, 4) = MAGIC_BYTES

\* A mapping taken of every file, the header-only one too
InitialMapAlways(f) == Some(Len(f))

\* The mapping new takes once the file is settled
InitialMap(f) == IF Len(f) > HEADER_SIZE THEN Some(Len(f)) ELSE None

\* MnemoEngine::new on the file f: the engine, or a panic of the scan
MnemoNew(f) ==
    IF ~IsValid(f)
    THEN [kind |-> "ok", file |-> HeaderBytes, index |-> EmptyIndex, last_id |-> ZeroId,
          mmap |-> InitialMap(HeaderBytes)]
    ELSE LET r == scan_records(f)
         IN  IF r.kind = "panic" THEN [kind |-> "panic"]
             ELSE [kind |-> "ok", file |-> f, index |-> r.index, last_id |-> r.last_id,
                   mmap |-> InitialMap(f)]

\* ------------------------------------------- MnemoEngine::append_with_vector
\* append_with_vector with the index and last_id updated before the writes
append_index_first(content, vector, metadata, ttl, timestamp, written) ==
    LET id  == U64Inc(last_id)
        rec == RecordBytes(id, timestamp, content, vector, metadata, ttl)
        record_start_offset == Len(file)
        entry == [id |-> id, content |-> content, vector |-> vector, metadata |-> metadata,
                  ttl |-> ttl, offset |-> record_start_offset, len |-> Len(rec),
                  epoch |-> opens]
        torn  == [id |-> id, offset |-> record_start_offset, written |-> written]
    IN  /\ written \in 0..Len(rec)
        /\ mmap' = None
        /\ file' = file \o SubSeq(rec, 1, written)
        /\ index' = IndexInsert(index, id, record_start_offset)
        /\ last_id' = id
        /\ vector_cache' = IndexInsert(vector_cache, id, vector)
        /\ IF written = Len(rec)
           THEN log' = Append(log, entry) /\ UNCHANGED failed
           ELSE failed' = Append(failed, torn) /\ UNCHANGED log

\* append_with_vector without its first statement: the mapping is kept
append_keep_map(content, vector, metadata, ttl, timestamp, written) ==
    LET id  == U64Inc(last_id)
        rec == RecordBytes(id, timestamp, content, vector, metadata, ttl)
        record_start_offset == Len(file)
        entry == [id |-> id, content |-> content, vector |-> vector, metadata |-> metadata,
                  ttl |-> ttl, offset |-> record_start_offset, len |-> Len(rec),
                  epoch |-> opens]
        torn  == [id |-> id, offset |-> record_start_offset, written |-> written]
    IN  /\ written \in 0..Len(rec)
        /\ mmap' = mmap
        /\ file' = file \o SubSeq(rec, 1, written)
        /\ IF written = Len(rec)
           THEN /\ index' = IndexInsert(index, id, record_start_offset)
                /\ last_id' = id
                /\ vector_cache' = IndexInsert(vector_cache, id, vector)
                /\ log' = Append(log, entry)
                /\ UNCHANGED failed
           ELSE /\ failed' = Append(failed, torn)
                /\ UNCHANGED <<index, last_id, vector_cache, log>>

\* The call with the first `written` bytes of the record reaching the file: all
\* of them when every write succeeds, fewer when a write_all fails and `?`
\* returns the error (the index and last_id are then left alone).
append_with_vector(content, vector, metadata, ttl, timestamp, written) ==
    LET id  == U64Inc(last_id)
        rec == RecordBytes(id, timestamp, content, vector, metadata, ttl)
        record_start_offset == Len(file)
        entry == [id |-> id, content |-> content, vector |-> vector, metadata |-> metadata,
                  ttl |-> ttl, offset |-> record_start_offset, len |-> Len(rec),
                  epoch |-> opens]
        torn  == [id |-> id, offset |-> record_start_offset, written |-> written]
    IN  /\ written \in 0..Len(rec)
        /\ mmap' = None
        /\ file' = file \o SubSeq(rec, 1, written)
        /\ IF written = Len(rec)
           THEN /\ index' = IndexInsert(index, id, record_start_offset)
                /\ last_id' = id
                /\ vector_cache' = IndexInsert(vector_cache, id, vector)
                /\ log' = Append(log, entry)
                /\ UNCHANGED failed
           ELSE /\ failed' = Append(failed, torn)
                /\ UNCHANGED <<index, last_id, vector_cache, log>>

RecordLen(content, vector, metadata, ttl) ==
    Len(RecordBytes(ZeroId, ZeroId, content, vector, metadata, ttl))

\* --------------------------------------------------- MnemoEngine::read_record
\* The mapping after the first step of read_record: kept when it covers the
\* file, taken anew when there is none or it is shorter than the file
EnsureMap == IF IsSome(mmap) /\ ~(mmap[1] < Len(file)) THEN mmap ELSE Some(Len(file))

\* What read_record(id) returns on an engine of file f and index idx, parsing
\* in the mapping map
ReadAt(f, idx, map, id) ==
    IF id \notin DOMAIN idx THEN ReadNone
    ELSE ParseRecord(SubSeq(f, 1, map[1]), idx[id], id)

ReadIn(map, id) == ReadAt(file, index, map, id)

read_record(id) == ReadIn(EnsureMap, id)

\* ------------------------------------------------- the log engine on its own
\* Dropping the handle (or the process ending): the file stays, the engine goes
DropEngine ==
    /\ index' = EmptyIndex
    /\ last_id' = ZeroId
    /\ mmap' = None
    /\ vector_cache' = EmptyIndex

\* MnemoEngine::new(dir)
EngineOpen ==
    /\ status = "closed"
    /\ opens < MaxOpens
    /\ opens' = opens + 1
    /\ LET r == MnemoNew(file)
       IN  IF r.kind = "panic"
           THEN /\ status' = "crashed"
                /\ UNCHANGED <<file, index, last_id, mmap>>
           ELSE /\ status' = "open"
                /\ file' = r.file
                /\ index' = r.index
                /\ last_id' = r.last_id
                /\ mmap' = r.mmap
    /\ ret' = NoRet
    /\ UNCHANGED <<vector_cache, facadeVars, log, failed, truncs>>

\* The handle is dropped
EngineDrop ==
    /\ status \in {"open", "crashed"}
    /\ status' = "closed"
    /\ DropEngine
    /\ ret' = NoRet
    /\ UNCHANGED <<file, facadeVars, histVars>>

\* append_with_vector returns Ok(id)
EngineAppend(content, vector, metadata, ttl, timestamp) ==
    /\ status = "open"
    /\ Attempts < MaxAppends
    /\ append_with_vector(content, vector, metadata, ttl, timestamp,
                          RecordLen(content, vector, metadata, ttl))
    /\ ret' = [op |-> "append", id |-> last_id']
    /\ UNCHANGED <<status, facadeVars, truncs, opens>>

\* append_with_vector returns Err after `written` bytes
EngineAppendFail(content, vector, metadata, ttl, timestamp, written) ==
    /\ status = "open"
    /\ Attempts < MaxAppends
    /\ Faults < MaxFaults
    /\ written < RecordLen(content, vector, metadata, ttl)
    /\ append_with_vector(content, vector, metadata, ttl, timestamp, written)
    /\ ret' = [op |-> "append_err"]
    /\ UNCHANGED <<status, facadeVars, truncs, opens>>

\* The ids a caller asks for: those of the index and one that is absent
ReadIds == (DOMAIN index) \cup {U64Inc(last_id)}

\* read_record(id); a panic ends the instance
EngineRead(id) ==
    /\ status = "open"
    /\ LET r == read_record(id)
       IN  /\ ret' = [op |-> "read", id |-> id, res |-> r]
           /\ status' = IF r.kind = "panic" THEN "crashed" ELSE "open"
    /\ mmap' = EnsureMap
    /\ UNCHANGED <<file, index, last_id, vector_cache, facadeVars, histVars>>

\* The closed file loses its tail: cut strictly inside the last record, as a
\* crash in the middle of the last append leaves it
LastStart == log[Len(log)].offset
Truncate(cut) ==
    /\ status = "closed"
    /\ log # <<>> /\ failed = <<>> /\ truncs = <<>>
    /\ Faults < MaxFaults
    /\ LastStart < cut /\ cut < Len(file)
    /\ file' = SubSeq(file, 1, cut)
    /\ truncs' = Append(truncs, [n |-> Len(log), cut |-> cut, start |-> LastStart])
    /\ ret' = NoRet
    /\ UNCHANGED <<status, engineVars, facadeVars, log, failed, opens>>

MaxRecordLen == 4 + 8 + 1 + 8 + 8 + 4 + 9 + 4 + 2 + 4 + 4 * (EmbedDim + 1) + 4
FileLens == 0..(HEADER_SIZE + MaxAppends * MaxRecordLen)

NextEngine ==
    \/ EngineOpen
    \/ EngineDrop
    \/ \E p \in Payloads, m \in Metas, t \in Ttls, ts \in Clock :
          EngineAppend(p[1], p[2], m, t, ts)
    \/ \E p \in Payloads, m \in Metas, t \in Ttls, ts \in Clock :
          \E w \in 0..MaxRecordLen : EngineAppendFail(p[1], p[2], m, t, ts, w)
    \/ \E id \in ReadIds : EngineRead(id)
    \/ \E cut \in FileLens : Truncate(cut)

SpecEngine == Init /\ [][NextEngine]_vars

\* ------------------------------------- the log engine on a file others touch
\* The closed file's magic is zeroed
ZeroMagic ==
    /\ status = "closed"
    /\ Len(file) >= HEADER_SIZE
    /\ Faults < MaxFaults
    /\ file' = <<0, 0, 0, 0>> \o SubSeq(file, 5, Len(file))
    /\ truncs' = Append(truncs, [n |-> Len(log), cut |-> Len(file), start |-> 0])
    /\ ret' = NoRet
    /\ UNCHANGED <<status, engineVars, facadeVars, log, failed, opens>>

\* The closed file is cut to fewer bytes than a header
ShortLens == {1, HEADER_SIZE - 1}
CutShort(cut) ==
    /\ status = "closed"
    /\ Len(file) >= HEADER_SIZE
    /\ Faults < MaxFaults
    /\ cut \in ShortLens
    /\ file' = SubSeq(file, 1, cut)
    /\ truncs' = Append(truncs, [n |-> Len(log), cut |-> cut, start |-> 0])
    /\ ret' = NoRet
    /\ UNCHANGED <<status, engineVars, facadeVars, log, failed, opens>>

\* A byte of the sync marker or of the id of a record is overwritten with 0
\* under the open engine, whose index keeps pointing at the record
ScribbleAt == UNION {(log[i].offset + 1)..(log[i].offset + 12) : i \in 1..Len(log)}
Scribble(at) ==
    /\ status = "open"
    /\ Faults < MaxFaults
    /\ at \in ScribbleAt /\ at <= Len(file)
    /\ file' = [file EXCEPT ![at] = 0]
    /\ truncs' = Append(truncs, [n |-> Len(log), cut |-> Len(file), start |-> at])
    /\ ret' = NoRet
    /\ UNCHANGED <<status, engineVars, facadeVars, log, failed, opens>>

NextFaults ==
    \/ EngineOpen
    \/ EngineDrop
    \/ \E p \in Payloads, m \in Metas, t \in Ttls, ts \in Clock :
          EngineAppend(p[1], p[2], m, t, ts)
    \/ \E id \in ReadIds : EngineRead(id)
    \/ ZeroMagic
    \/ \E cut \in ShortLens : CutShort(cut)
    \/ \E at \in ScribbleAt : Scribble(at)

SpecFaults == Init /\ [][NextFaults]_vars

\* ------------------------------------------------ the embedder and the ANN
\* TextEmbedding::embed: a deterministic function from a text to EmbedDim f32
Embed(text) == [i \in 1..EmbedDim |-> <<Len(text), i, 128, 62>>]

\* Hnsw: the bag of (vector, id) points inserted
EmptyHnsw == [x \in {} |-> 0]
HnswInsert(h, vector, id) ==
    LET pt == <<vector, id>>
    IN  [x \in (DOMAIN h) \cup {pt} |->
            IF x = pt THEN (IF pt \in DOMAIN h THEN h[pt] + 1 ELSE 1) ELSE h[x]]
HnswIds(h) == {pt[2] : pt \in DOMAIN h}

\* Hnsw::search(query, k, ef): up to k of the ids inserted, none twice, in the
\* order the (approximate) index ranks them
HnswSearch(h, k) ==
    UNION {{s \in [1..n -> HnswIds(h)] : \A a, b \in 1..n : a # b => s[a] # s[b]} : n \in 0..k}

\* ------------------------------------------------------- EngramDBInternal
\* A rebuild that stops after the first key of the index
RebuildFirstOnly(f, idx, ids, h) ==
    IF ids = {} THEN [kind |-> "ok", hnsw |-> h]
    ELSE LET id == CHOOSE x \in ids : TRUE
             r  == ReadAt(f, idx, Some(Len(f)), id)
         IN  IF r.kind \in {"err", "panic"} THEN [kind |-> r.kind]
             ELSE [kind |-> "ok",
                   hnsw |-> IF r.kind = "some" THEN HnswInsert(h, r.vector, id) ELSE h]

\* The rebuild loop of EngramDBInternal::new on the engine just opened (file f,
\* index idx, every read mapping the whole file) over the keys ids still to
\* do, in any order: the points inserted, or the error or panic of a read
RECURSIVE Rebuild(_, _, _, _)
Rebuild(f, idx, ids, h) ==
    IF ids = {} THEN [kind |-> "ok", hnsw |-> h]
    ELSE LET id == CHOOSE x \in ids : TRUE
             r  == ReadAt(f, idx, Some(Len(f)), id)
         IN  IF r.kind \in {"err", "panic"} THEN [kind |-> r.kind]
             ELSE Rebuild(f, idx, ids \ {id},
                          IF r.kind = "some" THEN HnswInsert(h, r.vector, id) ELSE h)

\* A loop that puts each memory in front of those already found
RECURSIVE MemoriesPrepend(_, _, _)
MemoriesPrepend(ids, map, acc) ==
    IF ids = <<>> THEN [kind |-> "ok", memories |-> acc]
    ELSE LET r == ReadIn(map, Head(ids))
         IN  IF r.kind \in {"err", "panic"} THEN [kind |-> r.kind]
             ELSE MemoriesPrepend(Tail(ids), map,
                                  IF r.kind = "some"
                                  THEN <<<<r.content, r.metadata>>>> \o acc ELSE acc)

\* The loop of recall over the ids the search returned
RECURSIVE Memories(_, _, _)
Memories(ids, map, acc) ==
    IF ids = <<>> THEN [kind |-> "ok", memories |-> acc]
    ELSE LET r == ReadIn(map, Head(ids))
         IN  IF r.kind \in {"err", "panic"} THEN [kind |-> r.kind]
             ELSE Memories(Tail(ids), map,
                           IF r.kind = "some"
                           THEN Append(acc, <<r.content, r.metadata>>) ELSE acc)

\* A lock that excludes nobody
MutexLockBroken(t) == lock' = t

\* self.inner.lock().unwrap() and the guard's drop
MutexLock(t) == lock = 0 /\ lock' = t
MutexUnlock(t) == lock' = 0

Idle == \A t \in Threads : pc[t] = "idle"
Leave(o, t) == SelectSeq(o, LAMBDA x : x # t)
Storing == Cardinality({t \in Threads : pc[t] \in {"store", "append"}})

\* The call returns: the guard is dropped
Return(t, r) ==
    /\ MutexUnlock(t)
    /\ pc' = [pc EXCEPT ![t] = "idle"]
    /\ local' = [local EXCEPT ![t] = NoLocal]
    /\ ret' = r

\* EngramDBInternal::new(path): the engine is opened, then the ANN rebuilt
FacadeOpen ==
    /\ status = "closed"
    /\ opens < MaxOpens
    /\ opens' = opens + 1
    /\ LET e == MnemoNew(file)
           b == IF e.kind = "ok"
                THEN Rebuild(e.file, e.index, DOMAIN e.index, EmptyHnsw)
                ELSE [kind |-> "panic"]
       IN  IF e.kind = "ok" /\ b.kind = "ok"
           THEN /\ status' = "open"
                /\ file' = e.file
                /\ index' = e.index
                /\ last_id' = e.last_id
                /\ mmap' = IF e.index = EmptyIndex THEN e.mmap ELSE Some(Len(e.file))
                /\ hnsw' = b.hnsw
                /\ ret' = NoRet
           ELSE /\ status' = IF b.kind = "err" THEN "closed" ELSE "crashed"
                /\ file' = IF e.kind = "ok" THEN e.file ELSE file
                /\ ret' = [op |-> "open_err", kind |-> b.kind]
                /\ UNCHANGED <<index, last_id, mmap, hnsw>>
    /\ UNCHANGED <<vector_cache, lock, pc, local, order, log, failed, truncs>>

\* The handle is dropped, no call being in progress
FacadeDrop ==
    /\ status \in {"open", "crashed"}
    /\ Idle
    /\ status' = "closed"
    /\ DropEngine
    /\ hnsw' = EmptyHnsw
    /\ ret' = NoRet
    /\ UNCHANGED <<file, lock, pc, local, order, histVars>>

\* store(text, metadata) of a binding: the lock is taken
CallStore(t, text, metadata) ==
    /\ status = "open"
    /\ pc[t] = "idle"
    /\ Attempts + Storing < MaxAppends
    /\ MutexLock(t)
    /\ pc' = [pc EXCEPT ![t] = "store"]
    /\ local' = [local EXCEPT ![t] = [NoLocal EXCEPT !.text = text, !.metadata = metadata]]
    /\ order' = Append(order, t)
    /\ ret' = NoRet
    /\ UNCHANGED <<file, status, engineVars, hnsw, histVars>>

\* self.model.embed(documents, None)? returns the embedding
StoreEmbed(t) ==
    /\ pc[t] = "store"
    /\ pc' = [pc EXCEPT ![t] = "append"]
    /\ local' = [local EXCEPT ![t].embedding = Embed(local[t].text)]
    /\ ret' = NoRet
    /\ UNCHANGED <<file, status, engineVars, hnsw, lock, order, histVars>>

\* self.model.embed(documents, None)? returns the error
StoreEmbedFail(t) ==
    /\ pc[t] = "store"
    /\ Return(t, [op |-> "store_err", step |-> "embed"])
    /\ order' = Leave(order, t)
    /\ UNCHANGED <<file, status, engineVars, hnsw, histVars>>

\* self.store.append_with_vector(&text, embedding.clone(), metadata, None)? is Ok(id)
StoreAppend(t, timestamp) ==
    /\ pc[t] = "append"
    /\ append_with_vector(local[t].text, local[t].embedding, local[t].metadata, None,
                          timestamp,
                          RecordLen(local[t].text, local[t].embedding, local[t].metadata, None))
    /\ pc' = [pc EXCEPT ![t] = "insert"]
    /\ local' = [local EXCEPT ![t].id = last_id']
    /\ ret' = NoRet
    /\ UNCHANGED <<status, hnsw, lock, order, truncs, opens>>

\* ... is Err, and the point is inserted all the same before store returns
StoreAppendFailInsert(t, timestamp, written) ==
    /\ pc[t] = "append"
    /\ Faults < MaxFaults
    /\ written < RecordLen(local[t].text, local[t].embedding, local[t].metadata, None)
    /\ append_with_vector(local[t].text, local[t].embedding, local[t].metadata, None,
                          timestamp, written)
    /\ hnsw' = HnswInsert(hnsw, local[t].embedding, U64Inc(last_id))
    /\ Return(t, [op |-> "store_err", step |-> "append"])
    /\ order' = Leave(order, t)
    /\ UNCHANGED <<status, truncs, opens>>

\* ... is Err: store returns it
StoreAppendFail(t, timestamp, written) ==
    /\ pc[t] = "append"
    /\ Faults < MaxFaults
    /\ written < RecordLen(local[t].text, local[t].embedding, local[t].metadata, None)
    /\ append_with_vector(local[t].text, local[t].embedding, local[t].metadata, None,
                          timestamp, written)
    /\ Return(t, [op |-> "store_err", step |-> "append"])
    /\ order' = Leave(order, t)
    /\ UNCHANGED <<status, hnsw, truncs, opens>>

\* store returns Ok(()) without the insert
StoreInsertSkipped(t) ==
    /\ pc[t] = "insert"
    /\ Return(t, [op |-> "store", id |-> local[t].id])
    /\ order' = Leave(order, t)
    /\ UNCHANGED <<file, status, engineVars, hnsw, histVars>>

\* self.hnsw.insert((&embedding, id as usize)); Ok(())
StoreInsert(t) ==
    /\ pc[t] = "insert"
    /\ hnsw' = HnswInsert(hnsw, local[t].embedding, local[t].id)
    /\ Return(t, [op |-> "store", id |-> local[t].id])
    /\ order' = Leave(order, t)
    /\ UNCHANGED <<file, status, engineVars, histVars>>

\* recall(query, limit) of a binding: the lock is taken.  The query only
\* decides how the search ranks the points, which HnswSearch leaves open, so
\* it is not kept.
CallRecall(t, query, limit) ==
    /\ status = "open"
    /\ pc[t] = "idle"
    /\ MutexLock(t)
    /\ pc' = [pc EXCEPT ![t] = "recall"]
    /\ local' = [local EXCEPT ![t] = [NoLocal EXCEPT !.limit = limit]]
    /\ ret' = NoRet
    /\ UNCHANGED <<file, status, engineVars, hnsw, order, histVars>>

\* EngramDBInternal::recall, the search returning `results`
RecallRun(t, results) ==
    /\ pc[t] = "recall"
    /\ results \in HnswSearch(hnsw, local[t].limit)
    /\ LET r == IF results = <<>> THEN [kind |-> "ok", memories |-> <<>>]
                ELSE Memories(results, EnsureMap, <<>>)
       IN  /\ Return(t, [op |-> "recall", ids |-> results, res |-> r,
                         keys |-> DOMAIN index, ann |-> HnswIds(hnsw)])
           /\ status' = IF r.kind = "panic" THEN "crashed" ELSE status
    /\ mmap' = IF results = <<>> THEN mmap ELSE EnsureMap
    /\ UNCHANGED <<file, index, last_id, vector_cache, hnsw, order, histVars>>

\* recall's embedding of the query fails
RecallEmbedFail(t) ==
    /\ pc[t] = "recall"
    /\ Return(t, [op |-> "recall_err", step |-> "embed"])
    /\ UNCHANGED <<file, status, engineVars, hnsw, order, histVars>>

\* count() of a binding: the lock is taken
CallCount(t) ==
    /\ status = "open"
    /\ pc[t] = "idle"
    /\ MutexLock(t)
    /\ pc' = [pc EXCEPT ![t] = "count"]
    /\ ret' = NoRet
    /\ UNCHANGED <<file, status, engineVars, hnsw, local, order, histVars>>

\* db.store.index.len()
CountRun(t) ==
    /\ pc[t] = "count"
    /\ Return(t, [op |-> "count", n |-> Cardinality(DOMAIN index),
                  keys |-> DOMAIN index, ann |-> HnswIds(hnsw)])
    /\ UNCHANGED <<file, status, engineVars, hnsw, order, histVars>>

\* search_raw(query_vector, limit) of the Python binding: the lock is taken.
\* No length of query_vector is refused.
QueryVectors == {<<F32_ONE>>, <<F32_ONE, F32_ONE>>}
CallSearchRaw(t, query_vector, limit) ==
    /\ status = "open"
    /\ pc[t] = "idle"
    /\ MutexLock(t)
    /\ pc' = [pc EXCEPT ![t] = "search_raw"]
    /\ local' = [local EXCEPT ![t] = [NoLocal EXCEPT !.limit = limit,
                                                     !.embedding = query_vector]]
    /\ ret' = NoRet
    /\ UNCHANGED <<file, status, engineVars, hnsw, order, histVars>>

\* db.hnsw.search(&query_vector, limit, 100) returns `results`, and the
\* records of the ids are read
SearchRawRun(t, results) ==
    /\ pc[t] = "search_raw"
    /\ results \in HnswSearch(hnsw, local[t].limit)
    /\ LET r == IF results = <<>> THEN [kind |-> "ok", memories |-> <<>>]
                ELSE Memories(results, EnsureMap, <<>>)
       IN  /\ Return(t, [op |-> "search_raw", query |-> local[t].embedding,
                         ids |-> results, res |-> r])
           /\ status' = IF r.kind = "panic" THEN "crashed" ELSE status
    /\ mmap' = IF results = <<>> THEN mmap ELSE EnsureMap
    /\ UNCHANGED <<file, index, last_id, vector_cache, hnsw, order, histVars>>

\* The search measures the query against a stored point of another length:
\* what Hnsw::search does then is the library's, and it may panic
SearchRawPanic(t) ==
    /\ pc[t] = "search_raw"
    /\ \E pt \in DOMAIN hnsw : Len(pt[1]) # Len(local[t].embedding)
    /\ Return(t, [op |-> "search_raw", query |-> local[t].embedding,
                  ids |-> <<>>, res |-> [kind |-> "panic"]])
    /\ status' = "crashed"
    /\ UNCHANGED <<file, engineVars, hnsw, order, histVars>>

Next ==
    \/ FacadeOpen
    \/ FacadeDrop
    \/ \E t \in Threads, x \in Texts, m \in Metas : CallStore(t, x, m)
    \/ \E t \in Threads : StoreEmbed(t)
    \/ \E t \in Threads : StoreEmbedFail(t)
    \/ \E t \in Threads, ts \in Clock : StoreAppend(t, ts)
    \/ \E t \in Threads, ts \in Clock : \E w \in 0..MaxRecordLen : StoreAppendFail(t, ts, w)
    \/ \E t \in Threads : StoreInsert(t)
    \/ \E t \in Threads, q \in Texts, k \in Limits : CallRecall(t, q, k)
    \/ \E t \in Threads : \E r \in HnswSearch(hnsw, local[t].limit) : RecallRun(t, r)
    \/ \E t \in Threads : RecallEmbedFail(t)
    \/ \E t \in Threads : CallCount(t)
    \/ \E t \in Threads : CountRun(t)
    \/ \E t \in Threads, q \in QueryVectors, k \in Limits : CallSearchRaw(t, q, k)
    \/ \E t \in Threads : \E r \in HnswSearch(hnsw, local[t].limit) : SearchRawRun(t, r)
    \/ \E t \in Threads : SearchRawPanic(t)
    \/ \E cut \in FileLens : Truncate(cut)

Spec == Init /\ [][Next]_vars

\* ================================================================== claims
Clean == failed = <<>> /\ truncs = <<>>
Count == Cardinality(DOMAIN index)
Reopened == opens >= 2 /\ status # "closed"

\* The record read is the one the append logged as e
SameRecord(r, e) ==
    /\ r.kind = "some"
    /\ r.content = e.content
    /\ r.vector = e.vector
    /\ r.metadata = e.metadata

\* C1 (recovery round trip): on a store that only saw successful appends, once
\* the directory has been reopened the engine is open, count() is the number of
\* appends, and read_record of each id 1..N returns the content, vector and
\* metadata of the append that returned that id; a read_record that ran says so.
C1_RecoveryRoundTrip ==
    (Reopened /\ Clean) =>
        /\ status = "open"
        /\ Count = Len(log)
        /\ \A i \in 1..Len(log) : log[i].id = U64(i) /\ SameRecord(read_record(U64(i)), log[i])
        /\ (ret.op = "read" /\ ret.id \in {U64(i) : i \in 1..Len(log)}) =>
               \E i \in 1..Len(log) : ret.id = U64(i) /\ SameRecord(ret.res, log[i])

\* C1 witness: two appends of an earlier instance (the cache of this one is
\* empty), one with ttl and metadata and one with neither, and the second read
\* back after the reopen
C1_Witness ==
    /\ Reopened /\ Clean /\ status = "open"
    /\ Len(log) = 2 /\ vector_cache = EmptyIndex
    /\ IsSome(log[1].ttl) /\ IsSome(log[1].metadata) /\ log[1].vector # <<>>
    /\ log[2].ttl = None /\ log[2].metadata = None
    /\ ret.op = "read" /\ ret.id = U64(2) /\ ret.res.kind = "some"

\* The file was cut inside its last record, after N successful appends and no
\* failed one, and nothing was appended since
TornTail == truncs # <<>> /\ failed = <<>> /\ Len(log) = truncs[1].n

\* Every id of the index is that of a logged append and reads back its content
IndexedReadable ==
    \A id \in DOMAIN index :
        \E i \in 1..Len(log) :
            /\ log[i].id = id
            /\ read_record(id).kind = "some"
            /\ read_record(id).content = log[i].content

\* C2 (torn-tail tolerance): after the file was truncated strictly inside its
\* last record, reopening succeeds, count() is N - 1 or N, and every record
\* counted is readable with its original content.
C2_TornTailTolerated ==
    (TornTail /\ status # "closed") =>
        /\ status = "open"
        /\ Count \in {Len(log) - 1, Len(log)}
        /\ IndexedReadable

LogIds == {log[i].id : i \in 1..Len(log)}
FirstIds(n) == {U64(i) : i \in 1..n}

\* C3 (id monotonicity): over store/append calls (any of which may fail),
\* reads and close-and-reopen, the ids of the successful appends are 1, 2, 3,
\* ... in call order, and the ids a reopen finds by scanning are exactly
\* 1..=last_id.
C3_IdMonotonicity ==
    truncs = <<>> =>
        /\ \A i \in 1..Len(log) : log[i].id = U64(i)
        /\ (status = "open" /\ opens >= 2) =>
               /\ last_id = U64(Len(log))
               /\ DOMAIN index = FirstIds(Len(log))

\* The store of log[i] was made on this instance and has returned
Returned(i) ==
    /\ log[i].epoch = opens
    /\ \A t \in Threads : ~(pc[t] = "insert" /\ local[t].id = log[i].id)

\* C4 (read your writes): once a store has returned on this instance, its id is
\* in the Offset Index and in the ANN Index with the stored vector, and
\* read_record(id) returns the stored content and metadata; a recall that ran
\* returned, for each such id the search gave it, that content and metadata.
C4_ReadYourWrites ==
    status = "open" =>
        \A i \in 1..Len(log) :
            Returned(i) =>
                /\ log[i].id \in DOMAIN index
                /\ <<log[i].vector, log[i].id>> \in DOMAIN hnsw
                /\ read_record(log[i].id).kind = "some"
                /\ read_record(log[i].id).content = log[i].content
                /\ read_record(log[i].id).metadata = log[i].metadata
                /\ ret.op = "recall" =>
                       /\ ret.res.kind = "ok"
                       /\ Len(ret.res.memories) = Len(ret.ids)
                       /\ \A j \in 1..Len(ret.ids) :
                              ret.ids[j] = log[i].id =>
                                  ret.res.memories[j] = <<log[i].content, log[i].metadata>>

\* C4 witness: two stores of this instance, and a recall that returned the
\* second one (the mapping it read from was taken after that store)
C4_Witness ==
    /\ status = "open" /\ Len(log) = 2 /\ Returned(1) /\ Returned(2)
    /\ ret.op = "recall" /\ ret.ids = <<U64(2)>>
    /\ ret.res.memories = <<<<log[2].content, log[2].metadata>>>>
    /\ IsSome(log[2].metadata)
    /\ mmap = Some(Len(file))

\* The complete record lies in the file at off: it parses, and its checksum
\* ends within the file
WellFormedAt(off, id) ==
    /\ off >= HEADER_SIZE
    /\ ParseRecord(file, off, id).kind = "some"
    /\ LET body == SubSeq(file, HEADER_SIZE + 1, Len(file))
           next == ScanAdvance(body, off - HEADER_SIZE)
       IN  next >= 0 /\ next <= Len(body)

\* C5 (Offset Index well-formedness): in every state of an open engine, each
\* key of the Offset Index points at a sync marker and a complete well-formed
\* record that lies within the file and carries the key as its id.
C5_IndexWellFormed ==
    status = "open" => \A id \in DOMAIN index : WellFormedAt(index[id], id)

\* C6 (count): on a store that was fresh when opened, after any appends (failed
\* ones too), reads and recalls, the Offset Index holds one entry per
\* successful append and count() returns their number; so it does after a
\* reopen when no append failed.
C6_CountIsAppends ==
    (status = "open" /\ (opens = 1 \/ Clean)) =>
        /\ Count = Len(log)
        /\ DOMAIN index = LogIds
        /\ ret.op = "count" => ret.n = Len(log)

\* C6 witness: a failed and a successful append on the first instance, and
\* count() returning 1
C6_Witness ==
    /\ status = "open" /\ opens = 1
    /\ Len(failed) = 1 /\ failed[1].written > 0 /\ Len(log) = 1
    /\ ret.op = "count" /\ ret.n = 1

\* C7 (ANN/log correspondence after rebuild-on-open): when the facade has
\* opened a directory (and nothing was stored since), the ids of the ANN Index
\* are the keys of the Offset Index, each inserted once, with the vector of the
\* persisted record of that id (the vector of the append that wrote it, when no
\* fault touched the file).
C7_AnnMatchesLogOnOpen ==
    (status = "open" /\ vector_cache = EmptyIndex /\ Idle) =>
        /\ HnswIds(hnsw) = DOMAIN index
        /\ Cardinality(DOMAIN hnsw) = Count
        /\ \A pt \in DOMAIN hnsw :
              /\ hnsw[pt] = 1
              /\ read_record(pt[2]).kind = "some"
              /\ read_record(pt[2]).vector = pt[1]
              /\ Clean => \E i \in 1..Len(log) : log[i].id = pt[2] /\ log[i].vector = pt[1]

\* C7 witness: a reopen that rebuilt two points
C7_Witness ==
    /\ status = "open" /\ vector_cache = EmptyIndex /\ Idle /\ opens = 2
    /\ Count = 2 /\ Cardinality(DOMAIN hnsw) = 2

\* C8 (store fails atomically): after a store failed in its append, count() is
\* unchanged (the Offset Index holds the successful stores only), and after
\* close-and-reopen the open succeeds, the failed record is absent and every
\* successfully stored record is present and readable; a recall returns
\* successfully stored texts only.
C8_StoreFailsAtomically ==
    (failed # <<>> /\ truncs = <<>>) =>
        /\ status # "crashed" /\ ret.op # "open_err"
        /\ status = "open" =>
               /\ DOMAIN index = LogIds
               /\ \A i \in 1..Len(log) : SameRecord(read_record(log[i].id), log[i])
               /\ (ret.op = "recall" /\ ret.res.kind = "ok") =>
                      \A j \in 1..Len(ret.res.memories) :
                          \E i \in 1..Len(log) :
                              ret.res.memories[j] = <<log[i].content, log[i].metadata>>

\* C9 (step ordering of store): the ANN Index only gains the point of a store
\* whose append has returned its id; a store that fails in the embedder leaves
\* the file, the Offset Index and the ANN Index alone, one that fails in the
\* append leaves the ANN Index alone; and no id of the ANN Index is absent from
\* the Offset Index.
C9_StepOrdering ==
    [][/\ HnswIds(hnsw') \subseteq DOMAIN index'
       /\ \A t \in Threads :
             (pc[t] = "store" /\ pc'[t] = "idle") =>
                 file' = file /\ index' = index /\ hnsw' = hnsw
       /\ \A t \in Threads :
             (pc[t] = "append" /\ pc'[t] = "idle") => index' = index /\ hnsw' = hnsw
       /\ (hnsw' # hnsw /\ status = "open" /\ status' = "open") =>
             \E t \in Threads :
                 /\ pc[t] = "insert"
                 /\ local[t].id \in DOMAIN index
                 /\ hnsw' = HnswInsert(hnsw, local[t].embedding, local[t].id)]_vars

\* C9 witness: a store succeeded and a later one failed in its append
C9_Witness ==
    /\ status = "open" /\ opens = 1
    /\ ret.op = "store_err" /\ ret.step = "append"
    /\ Len(failed) = 1 /\ failed[1].written >= 21
    /\ Cardinality(DOMAIN hnsw) = 1 /\ HnswIds(hnsw) = DOMAIN index

\* C10 (serialized concurrent use): a thread inside a call holds the lock, so
\* at most one call runs at a time; the Offset Index and the ANN Index differ
\* only while the lock holder is between its append and its insert, and no
\* recall or count observed them differing; a store appends when it is the
\* earliest store still in progress, and the ids of an instance's stores
\* increase in that order.
C10_SerializedUse ==
    [][/\ \A t \in Threads : pc'[t] # "idle" => lock' = t
       /\ (status' = "open" /\ HnswIds(hnsw') # DOMAIN index') =>
             \E t \in Threads : lock' = t /\ pc'[t] = "insert"
       /\ ret'.op \in {"count", "recall"} => ret'.keys = ret'.ann
       /\ \A t \in Threads :
             (pc[t] = "append" /\ pc'[t] = "insert") =>
                 /\ Head(order) = t
                 /\ \A i \in 1..Len(log) :
                       log[i].epoch = opens => U64Gt(local'[t].id, log[i].id)]_vars

\* C10 witness: thread 2 holds the lock between its append and its insert,
\* after an earlier store; thread 1 is outside
C10_Witness ==
    /\ status = "open" /\ lock = 2 /\ pc[2] = "insert" /\ pc[1] = "idle"
    /\ Len(log) = 2 /\ log[1].epoch = opens
    /\ Cardinality(DOMAIN hnsw) = 1 /\ HnswIds(hnsw) # DOMAIN index

\* The index and last_id an engine holds after the logged appends
LogIndex == [id \in LogIds |-> (CHOOSE i \in 1..Len(log) : log[i].id = id)]
LogOffsets == [id \in LogIds |-> log[LogIndex[id]].offset]

\* C11 (header validation on open): open takes the file as valid only when it
\* is at least 64 bytes long and starts with MNMO, and then leaves its bytes
\* alone, the scan restoring the Offset Index and last_id of the appends;
\* otherwise (new, shorter than 64 bytes, magic zeroed) the file becomes a
\* fresh 64-byte header of version 3 and the engine has no entry, last_id 0
\* and no mapping.
C11_HeaderValidation ==
    [][(status = "closed" /\ status' # "closed") =>
          IF Len(file) >= 64 /\ SubSeq(file, 1, 4) = <<77, 78, 77, 79>>
          THEN /\ file' = file
               /\ Clean => /\ status' = "open"
                           /\ index' = LogOffsets
                           /\ last_id' = U64(Len(log))
          ELSE /\ status' = "open"
               /\ file' = <<77, 78, 77, 79, 3, 0>> \o [i \in 1..58 |-> 0]
               /\ index' = EmptyIndex
               /\ last_id' = ZeroId
               /\ mmap' = None]_vars

\* C11 witness: a populated file whose magic was zeroed has been reopened as an
\* empty store
C11_Witness ==
    /\ status = "open" /\ opens = 2 /\ Len(log) = 2
    /\ Len(truncs) = 1 /\ truncs[1].start = 0 /\ truncs[1].cut > HEADER_SIZE
    /\ Len(file) = HEADER_SIZE /\ Count = 0 /\ last_id = ZeroId /\ mmap = None

\* C12 (dimension invariant): a search_raw whose vector has another length
\* than the embedding dimension returns an argument error, having searched
\* nothing and read no record, and leaves the file, the Offset Index, last_id
\* and the ANN Index as they were.
C12_DimensionRejected ==
    [][\A t \in Threads :
          (pc[t] = "search_raw" /\ pc'[t] = "idle"
                /\ Len(local[t].embedding) # EmbedDim) =>
              /\ ret'.res.kind = "arg_err"
              /\ UNCHANGED <<file, index, last_id, mmap, hnsw>>]_vars

\* C13 (recall): a recall(query, k) that returns gives at most k (content,
\* metadata) pairs, no more than the search gave ids; when every id the search
\* gave is in the Offset Index there is one pair per id, in the order of the
\* ids, each the content and metadata of the persisted record of its id (those
\* of the store that wrote it, when no fault touched the file).
C13_RecallResult ==
    [][\A t \in Threads :
          (pc[t] = "recall" /\ pc'[t] = "idle"
                /\ ret'.op = "recall" /\ ret'.res.kind = "ok") =>
              LET ids == ret'.ids
                  mem == ret'.res.memories
              IN  /\ Len(mem) <= local[t].limit
                  /\ Len(mem) <= Len(ids)
                  /\ (\A j \in 1..Len(ids) : ids[j] \in DOMAIN index) =>
                        /\ Len(mem) = Len(ids)
                        /\ \A j \in 1..Len(ids) :
                              /\ read_record(ids[j]).kind = "some"
                              /\ mem[j] = <<read_record(ids[j]).content,
                                            read_record(ids[j]).metadata>>
                              /\ Clean => \E i \in 1..Len(log) :
                                              /\ log[i].id = ids[j]
                                              /\ mem[j] = <<log[i].content,
                                                            log[i].metadata>>]_vars

\* C13 witness: a recall with limit 2 returned the second store's record and
\* then the first's, the two differing
C13_Witness ==
    /\ ret.op = "recall" /\ ret.res.kind = "ok"
    /\ ret.ids = <<U64(2), U64(1)>>
    /\ Len(log) = 2 /\ log[1].content # log[2].content
    /\ ret.res.memories = <<<<log[2].content, log[2].metadata>>,
                            <<log[1].content, log[1].metadata>>>>

\* C14 (mapping state machine): open leaves the engine Mapped exactly when the
\* file is longer than its 64-byte header; every append, failed ones too,
\* leaves it Unmapped; every read_record that returns leaves it Mapped, also
\* when the id is not found; and nothing else changes the mapping of an
\* engine.
C14_MappingStateMachine ==
    [][/\ (status = "closed" /\ status' = "open") =>
             (IsSome(mmap') <=> Len(file') > 64)
       /\ (Attempts' > Attempts) => mmap' = None
       /\ (status = "open" /\ ret'.op = "read" /\ ret'.res.kind # "panic") =>
             IsSome(mmap')
       /\ (status = "open" /\ status' = "open" /\ mmap' # mmap) =>
             \/ Attempts' > Attempts
             \/ ret'.op = "read" /\ mmap = None
             \/ ret'.op = "read" /\ mmap[1] < Len(file)]_vars

\* C14 witness: on a header-only file (Unmapped after open) a read of an id
\* that is not there has left the engine Mapped
C14_Witness ==
    /\ status = "open" /\ Len(file) = HEADER_SIZE /\ index = EmptyIndex
    /\ ret.op = "read" /\ ret.res.kind = "none"
    /\ IsSome(mmap)

\* C15 (mapping freshness): the mapping read_record parses from is as long as
\* the file, so it covers every record of the Offset Index; on an instance no
\* mapping shorter than the file is left for a read to use, whatever appends
\* and reads came before.
C15_MappingFresh ==
    [][/\ (status = "open" /\ ret'.op = "read") =>
             /\ mmap'[1] = Len(file)
             /\ \A id \in DOMAIN index : index[id] < mmap'[1]
             /\ Clean => \A i \in 1..Len(log) : log[i].offset + log[i].len <= mmap'[1]
       /\ (status' = "open" /\ IsSome(mmap')) => mmap'[1] = Len(file')]_vars

\* C15 witness: a read on an engine Mapped at open, after an append of the
\* instance made the file longer than that mapping
C15_Witness ==
    /\ status = "open" /\ opens = 2 /\ Len(log) = 2
    /\ log[1].epoch = 1 /\ log[2].epoch = 2
    /\ ret.op = "read" /\ ret.id = U64(2) /\ ret.res.kind = "some"
    /\ mmap = Some(Len(file))

\* C16 (scan agrees with the writer): on a file written by successful appends
\* only (with and without ttl and metadata, vectors holding the bytes FA FA FA
\* FA), the scan steps over each record by exactly the bytes the append wrote,
\* and returns the Offset Index and last_id the writer held: every record
\* start and nothing else.
C16_ScanAgreesWithWriter ==
    (Clean /\ status # "crashed" /\ Len(file) >= HEADER_SIZE) =>
        LET body == SubSeq(file, HEADER_SIZE + 1, Len(file))
            r    == scan_records(file)
        IN  /\ \A i \in 1..Len(log) :
                  ScanAdvance(body, log[i].offset - 64) = log[i].offset - 64 + log[i].len
            /\ r.kind = "ok"
            /\ r.index = LogOffsets
            /\ r.last_id = U64(Len(log))
            /\ status = "open" => (index = r.index /\ last_id = r.last_id)

\* C16 witness: an engine reopened on two records, both with the sync bytes in
\* their vector, the first with ttl and metadata, the second with metadata
C16_Witness ==
    /\ Clean /\ status = "open" /\ opens = 2 /\ vector_cache = EmptyIndex
    /\ Len(log) = 2 /\ index = LogOffsets
    /\ log[1].vector = <<F32_SYNC>> /\ log[2].vector = <<F32_SYNC>>
    /\ IsSome(log[1].ttl) /\ IsSome(log[1].metadata)
    /\ log[2].ttl = None /\ IsSome(log[2].metadata)

\* C17 (scan termination bound): whatever the file holds, the scan decodes a
\* record header only where at least 21 bytes (sync 4, id 8, flags 1,
\* timestamp 8) are left in the body, and never reaches for a length field or
\* a payload beyond the end of the body.
C17_ScanTerminationBound ==
    (status = "closed" /\ Len(file) >= HEADER_SIZE) =>
        LET body == SubSeq(file, HEADER_SIZE + 1, Len(file))
        IN  /\ \A p \in ScanHeaders(body, 0) : p + 21 <= Len(body)
            /\ scan_records(file).kind # "panic"

\* The 4 bytes at the offset the index gives for id are there and are not the
\* sync marker
NoSyncAt(id) ==
    /\ id \in DOMAIN index
    /\ index[id] + 4 <= Len(file)
    /\ SubSeq(file, index[id] + 1, index[id] + 4) # <<250, 250, 250, 250>>

\* The sync marker is at the offset the index gives for id, followed by
\* another id
OtherIdAt(id) ==
    /\ id \in DOMAIN index
    /\ index[id] + 12 <= Len(file)
    /\ SubSeq(file, index[id] + 1, index[id] + 4) = <<250, 250, 250, 250>>
    /\ SubSeq(file, index[id] + 5, index[id] + 12) # id

\* C18 (defensive read): read_record(id) returns not-found, with no error and
\* the Offset Index, last_id and the file as they were, when id is not in the
\* Offset Index, when the 4 bytes at its offset are not the sync marker, and
\* when the id found there is another one.
C18_DefensiveRead ==
    [][(status = "open" /\ ret'.op = "read"
            /\ (ret'.id \notin DOMAIN index \/ NoSyncAt(ret'.id) \/ OtherIdAt(ret'.id))) =>
          /\ ret'.res = [kind |-> "none"]
          /\ status' = "open"
          /\ UNCHANGED <<index, last_id, file>>]_vars

\* C18 witness: the id of an indexed record was overwritten in the file, and
\* the read of that id returned not-found
C18_Witness ==
    /\ status = "open" /\ ret.op = "read" /\ ret.res.kind = "none"
    /\ Len(truncs) = 1 /\ truncs[1].start > 0
    /\ OtherIdAt(ret.id)

\* The sync marker and the id are at the offset the index gives for id
HeadedAt(id) ==
    /\ id \in DOMAIN index
    /\ index[id] + 12 <= Len(file)
    /\ SubSeq(file, index[id] + 1, index[id] + 4) = <<250, 250, 250, 250>>
    /\ SubSeq(file, index[id] + 5, index[id] + 12) = id

\* C19 (malformed record on read): a read_record of an id whose indexed offset
\* carries the sync marker and that id returns the record or, when the rest
\* is malformed (cut by the end of the file, a length reaching past the
\* mapping, metadata that is no JSON string map, content that is not UTF-8),
\* not-found: never an error, never a crash.
C19_MalformedReadNotFound ==
    (ret.op = "read" /\ HeadedAt(ret.id)) =>
        /\ ret.res.kind \in {"some", "none"}
        /\ status = "open"

\* C20 (append-only): on an open instance the file only grows at its end, the
\* header and the bytes already there staying as they are; no entry of the
\* Offset Index is removed or pointed elsewhere; a successful append adds
\* exactly one new key, at the length the file had before it, a failed one
\* none; and read_record changes neither the file nor the Offset Index.
C20_AppendOnly ==
    [][(status = "open" /\ status' # "closed") =>
          /\ Len(file') >= Len(file)
          /\ SubSeq(file', 1, Len(file)) = file
          /\ \A id \in DOMAIN index : id \in DOMAIN index' /\ index'[id] = index[id]
          /\ (Len(log') > Len(log)) =>
                \E id \in DOMAIN index' :
                    /\ id \notin DOMAIN index
                    /\ DOMAIN index' = DOMAIN index \cup {id}
                    /\ index'[id] = Len(file)
          /\ (Len(failed') > Len(failed)) => index' = index
          /\ (ret'.op = "read") => (file' = file /\ index' = index)]_vars

\* C20 witness: two appends of one instance, the second starting where the
\* first ended, and a read of the first after them
C20_Witness ==
    /\ status = "open" /\ opens = 1 /\ Len(log) = 2
    /\ log[1].offset = HEADER_SIZE
    /\ log[2].offset = log[1].offset + log[1].len
    /\ Len(file) = log[2].offset + log[2].len
    /\ index = LogOffsets
    /\ ret.op = "read" /\ ret.id = U64(1) /\ ret.res.kind = "some"

====
